---- MODULE Spec2Model ----
(***************************************************************************)
(* Model of the golgi convolution layer (conv.go) and of the layer         *)
(* framework helper Redefine (layer.go).                                   *)
(*                                                                         *)
(* One Conv layer object is followed through its life: construction        *)
(* (NewConv / ConsConv), the setters, explicit Init, Fwd and Redefine.     *)
(* Go slices are 0-indexed; Idx(s, i) reads element i of a Go slice.       *)
(* A Go run-time panic (index out of range, call of a nil function) is an  *)
(* outcome of a call: res = "panic", with the assignments made before the  *)
(* panicking expression kept.                                              *)
(***************************************************************************)
EXTENDS Integers, Sequences, FiniteSets, TLC

VARIABLES l, nalloc, last, fl

vars == <<l, nalloc, last, fl>>

(***************************************************************************)
(* Bounds of the model.                                                    *)
(***************************************************************************)
MaxAlloc == 2      \* weight tensors allocated in one behaviour
MaxLayers == 2     \* layers constructed in one behaviour
MaxOpts == 2       \* options passed to one constructor / Redefine call
MaxStride == 3     \* strides tried by the FLOPs evaluation
MaxPad == 1        \* paddings tried by the FLOPs evaluation

(***************************************************************************)
(* Program constants: the defaults NewConv installs.                       *)
(***************************************************************************)
DefaultKernel == 5
DefaultPad == 1
DefaultStride == 1
DefaultDilation == 1
RequiredRank == 4

Idx(s, i) == s[i + 1]

(***************************************************************************)
(* Values.                                                                 *)
(***************************************************************************)
NilNode == [id |-> 0, g |-> "nil", dt |-> "nil", shape |-> <<>>, name |-> ""]
NoDropout == -1

Contexts == {<<"g1", "Float64">>, <<"g2", "Float32">>}
Names == {"conv"}
Sizes == {<<>>, <<6, 3>>, <<8, 3>>}
Acts == {"Rectify", "nil"}
Faults == {"none", "conv2d", "act", "dropout"}
DropoutProbs == {50}
XShapes == {<<1, 3, 32, 32>>, <<1, 3, 8, 8>>, <<3, 8, 8>>}
ConsShapes == {<<>>, <<3, 8, 8>>, <<1, 3, 8, 8>>, <<1, 3, 8, 8, 2>>}

(* A gorgonia.Input: a node of a graph (g, dt, shape), a nil node, or an   *)
(* error-carrying input (Err() != nil).                                    *)
Node(g, dt, shape) == [err |-> FALSE, isNil |-> FALSE, g |-> g, dt |-> dt, shape |-> shape]
NilInput == [err |-> FALSE, isNil |-> TRUE, g |-> "nil", dt |-> "nil", shape |-> <<>>]
ErrInput == [err |-> TRUE, isNil |-> TRUE, g |-> "nil", dt |-> "nil", shape |-> <<>>]

FwdInputs == {Node(c[1], c[2], s) : c \in Contexts, s \in XShapes} \cup {ErrInput}
ConsInputs ==
    {Node(c[1], c[2], <<1, 3, 8, 8>>) : c \in Contexts}
        \cup {Node("g1", "Float64", s) : s \in ConsShapes} \cup {NilInput}
InitInputs == {Node(c[1], c[2], <<1, 3, 8, 8>>) : c \in Contexts}

(***************************************************************************)
(* Go integer division: the quotient is truncated toward zero.             *)
(***************************************************************************)
GoDivFloor(a, b) == a \div b

GoDiv(a, b) ==
    IF a >= 0 THEN a \div b ELSE -((-a) \div b)

(* One factor of instancesPerFilter (conv.go:204 and :205).                *)
InstancesPerDim(inputDim, k, pad, stride) ==
    GoDiv(inputDim - k + 2 * pad, stride) + 1

(* The two dimensions of the input that doComputeFLOPs reads: input[1] for *)
(* the rows factor and input[2] for the columns factor.                    *)
RowsDim(input) == Idx(input, 1)

ColsDim(input) == Idx(input, 2)

(* Conv.doComputeFLOPs; actSet is l.act != nil.  The record keeps the      *)
(* intermediate values next to the returned one.                           *)
doComputeFLOPs(shp, input, pad, stride, actSet) ==
    LET n == Idx(shp, 1) * Idx(shp, 2) * Idx(shp, 3)
        flopsPerInstance == n + 1
        rows == InstancesPerDim(RowsDim(input), Idx(shp, 2), Idx(pad, 0), Idx(stride, 0))
        cols == InstancesPerDim(ColsDim(input), Idx(shp, 3), Idx(pad, 1), Idx(stride, 1))
        instancesPerFilter == rows * cols
        flopsPerFilter == instancesPerFilter * flopsPerInstance
        retVal == flopsPerFilter * Idx(shp, 0)
    IN  [rows |-> rows, cols |-> cols,
         retVal |-> IF actSet THEN retVal + Idx(shp, 0) * instancesPerFilter
                    ELSE retVal]

(***************************************************************************)
(* The Conv struct (conv.go:58-75) as NewConv fills it in (conv.go:78-84). *)
(* id stands for the identity of the *Conv pointer.                        *)
(***************************************************************************)
DefaultConv(id) ==
    [id |-> id, w |-> NilNode, name |-> "", size |-> <<>>,
     kernelShape |-> <<DefaultKernel, DefaultKernel>>,
     pad |-> <<DefaultPad, DefaultPad>>,
     stride |-> <<DefaultStride, DefaultStride>>,
     dilation |-> <<DefaultDilation, DefaultDilation>>,
     dropout |-> NoDropout, act |-> "Rectify",
     initialized |-> FALSE, computeFLOPs |-> FALSE, flops |-> 0]

(* Conv.Init indexes l.size[0] and l.size[1] while building the arguments  *)
(* of NewTensor: with fewer than two entries the index expression panics   *)
(* before l.w or l.initialized is assigned.                                *)
InitPanics(lay) == Len(lay.size) < 2

NewTensor(id, x, lay) ==
    [id |-> id, g |-> x.g, dt |-> x.dt,
     shape |-> <<Idx(lay.size, 0), Idx(lay.size, 1),
                 Idx(lay.kernelShape, 0), Idx(lay.kernelShape, 1)>>,
     name |-> lay.name \o "_w"]

ConvInitNoFlag(lay, x, na) ==
    [lay EXCEPT !.w = NewTensor(na + 1, x, lay)]

(* Conv.Init for a layer whose size has two entries; na is the number of   *)
(* tensors allocated so far.                                               *)
ConvInit(lay, x, na) ==
    [lay EXCEPT !.w = NewTensor(na + 1, x, lay), !.initialized = TRUE]

(* The setters.                                                            *)
SetDropout(lay, d) == [lay EXCEPT !.dropout = d]
SetSize(lay, s) == [lay EXCEPT !.size = s]
SetName(lay, n) == [lay EXCEPT !.name = n]
SetActivationFn(lay, a) == [lay EXCEPT !.act = a]

(***************************************************************************)
(* Conv.Fwd (conv.go:136-173) as a pipeline of stages over a context:      *)
(*   l       the layer as modified so far                                  *)
(*   na      tensors allocated so far                                      *)
(*   res     "run" while no stage has returned, then "err" or "panic"      *)
(*   stages  the stages entered, in order                                  *)
(*   failed  the stage that returned an error or panicked                  *)
(* A stage that finds res # "run" is behind an earlier return: it is       *)
(* skipped.  Which gorgonia primitive, if any, returns an error (Conv2d,   *)
(* the activation function, Dropout) is an input of the call: fault.       *)
(***************************************************************************)
Enter(ctx, stage) == [ctx EXCEPT !.stages = Append(@, stage)]

Stop(ctx, stage, how) == [Enter(ctx, stage) EXCEPT !.res = how, !.failed = stage]

(* gorgonia.CheckOne (conv.go:137-139).                                    *)
StageCheck(ctx, x) ==
    IF ctx.res # "run" THEN ctx
    ELSE IF x.err THEN Stop(ctx, "check", "err")
    ELSE Enter(ctx, "check")

(* Lazy initialization (conv.go:142-146).                                  *)
StageInit(ctx, x) ==
    IF ctx.res # "run" \/ ctx.l.initialized THEN ctx
    ELSE IF InitPanics(ctx.l) THEN Stop(ctx, "init", "panic")
    ELSE [Enter(ctx, "init") EXCEPT !.l = ConvInit(ctx.l, x, ctx.na), !.na = @ + 1]

(* gorgonia.Conv2d refuses an input that is not 4-D or whose channel count *)
(* differs from the weight's.                                              *)
Conv2dShapesOK(xshape, wshape) ==
    /\ Len(xshape) = RequiredRank
    /\ Len(wshape) = RequiredRank
    /\ Idx(xshape, 1) = Idx(wshape, 1)

(* conv.go:148-151.                                                        *)
StageConv(ctx, x, fault) ==
    IF ctx.res # "run" THEN ctx
    ELSE IF fault # "conv2d" /\ Conv2dShapesOK(x.shape, ctx.l.w.shape) THEN Enter(ctx, "conv2d")
    ELSE Stop(ctx, "conv2d", "err")

(* conv.go:153-156: calling a nil ActivationFunction panics.               *)
StageAct(ctx, fault) ==
    IF ctx.res # "run" THEN ctx
    ELSE IF ctx.l.act = "nil" THEN Stop(ctx, "act", "panic")
    ELSE IF fault # "act" THEN Enter(ctx, "act")
    ELSE Stop(ctx, "act", "err")

(* conv.go:158-163.                                                        *)
StageDropout(ctx, fault) ==
    IF ctx.res # "run" \/ ctx.l.dropout = NoDropout THEN ctx
    ELSE IF fault # "dropout" THEN Enter(ctx, "dropout")
    ELSE Stop(ctx, "dropout", "err")

StageFLOPsBeforeDropoutCheck(ctx, x) ==
    IF (ctx.res # "run" /\ ctx.failed # "dropout") \/ ~ctx.l.computeFLOPs THEN ctx
    ELSE [Enter(ctx, "flops") EXCEPT
            !.l.flops = doComputeFLOPs(ctx.l.w.shape, x.shape, ctx.l.pad,
                                       ctx.l.stride, ctx.l.act # "nil").retVal]

(* conv.go:166-168.                                                        *)
StageFLOPs(ctx, x) ==
    IF ctx.res # "run" \/ ~ctx.l.computeFLOPs THEN ctx
    ELSE [Enter(ctx, "flops") EXCEPT
            !.l.flops = doComputeFLOPs(ctx.l.w.shape, x.shape, ctx.l.pad,
                                       ctx.l.stride, ctx.l.act # "nil").retVal]

(* conv.go:172.                                                            *)
Finish(ctx) == IF ctx.res = "run" THEN [ctx EXCEPT !.res = "ok"] ELSE ctx

FwdRun(lay, x, na, fault) ==
    LET c0 == [l |-> lay, na |-> na, res |-> "run", stages |-> <<>>, failed |-> ""]
        c1 == StageCheck(c0, x)
        c2 == StageInit(c1, x)
        c3 == StageConv(c2, x, fault)
        c4 == StageAct(c3, fault)
        c5 == StageDropout(c4, fault)
        c6 == StageFLOPs(c5, x)
    IN  Finish(c6)

(***************************************************************************)
(* Construction options.  A ConsOpt is a function (Layer) -> (Layer,       *)
(* error); the repository's options call one setter of the layer and       *)
(* return the layer they were given, or fail their capability check.  An   *)
(* option is described by the setter it calls (kind, arg), the layer value *)
(* it returns (ret: "arg" the layer it was given, "other" a layer of       *)
(* another type, "nil") and whether it returns an error.                   *)
(***************************************************************************)
Opt(kind, ret, err) == [kind |-> kind, ret |-> ret, err |-> err]

OptSize == <<6, 3>>
OptName == "conv"
OptAct == "nil"

OptSet ==
    {Opt("SetSize", "arg", FALSE),
     Opt("SetName", "arg", FALSE),
     Opt("none", "other", FALSE),
     Opt("none", "nil", TRUE),
     Opt("none", "arg", TRUE)}

OptLists == UNION {[1..n -> OptSet] : n \in 0..MaxOpts}

(* The effect of a successful option on the layer it is applied to.        *)
ApplySetter(opt, lay) ==
    CASE opt.kind = "SetSize" -> SetSize(lay, OptSize)
      [] opt.kind = "SetName" -> SetName(lay, OptName)
      [] opt.kind = "SetDropout" -> SetDropout(lay, CHOOSE d \in DropoutProbs : TRUE)
      [] opt.kind = "SetActivationFn" -> SetActivationFn(lay, OptAct)
      [] OTHER -> lay

(* opt(cur): cur is the layer value handed to the option ("orig" the Conv  *)
(* under observation, "other", "nil"); lay is the state of the Conv under  *)
(* observation, which only an option applied to it can change.  An option  *)
(* handed nil fails its capability check.                                  *)
CallOpt(opt, cur, lay) ==
    IF cur = "nil" THEN [l |-> lay, ret |-> "nil", err |-> TRUE]
    ELSE [l |-> IF opt.err \/ cur # "orig" THEN lay ELSE ApplySetter(opt, lay),
          ret |-> IF opt.ret = "arg" THEN cur ELSE opt.ret,
          err |-> opt.err]

(***************************************************************************)
(* NewConv (conv.go:77-102): i options have been applied to lay.           *)
(***************************************************************************)
RECURSIVE NewConvLoop(_, _, _)
NewConvLoop(lay, opts, i) ==
    IF i = Len(opts) THEN [ok |-> TRUE, l |-> lay, called |-> i, err |-> ""]
    ELSE LET r == CallOpt(opts[i + 1], "orig", lay)
         IN  IF r.err THEN [ok |-> FALSE, l |-> r.l, called |-> i + 1, err |-> "option"]
             ELSE IF r.ret # "orig"
                  THEN [ok |-> FALSE, l |-> r.l, called |-> i + 1, err |-> "nonConv"]
             ELSE NewConvLoop(r.l, opts, i + 1)

NewConv(id, opts) == NewConvLoop(DefaultConv(id), opts, 0)

RankBadBelowOnly(inshape) == Len(inshape) < RequiredRank

(* The rank test of ConsConv (conv.go:27).                                 *)
RankBad(inshape) == Len(inshape) # RequiredRank \/ Len(inshape) = 0

(***************************************************************************)
(* ConsConv (conv.go:20-42).                                               *)
(***************************************************************************)
ConsConv(id, in, opts, na) ==
    LET none == [res |-> "err", l |-> DefaultConv(0), na |-> na, called |-> 0,
                 err |-> "", errShape |-> <<>>]
    IN  IF in.isNil THEN [none EXCEPT !.err = "nilNode"]
        ELSE IF RankBad(in.shape) THEN [none EXCEPT !.err = "rank", !.errShape = in.shape]
        ELSE LET r == NewConv(id, opts)
             IN  IF ~r.ok THEN [none EXCEPT !.err = r.err, !.called = r.called]
                 ELSE IF InitPanics(r.l)
                      THEN [none EXCEPT !.res = "panic", !.called = r.called]
                 ELSE [res |-> "ok", l |-> ConvInit(r.l, in, na), na |-> na + 1,
                       called |-> r.called, err |-> "", errShape |-> <<>>]

(***************************************************************************)
(* Redefine (layer.go:55-62).  "l, err := opt(l)" declares a new l inside  *)
(* the if statement: the function's own l (cur) is what every option is    *)
(* handed and what is returned at the end, while the return inside the if  *)
(* returns the value the failing option returned.                          *)
(***************************************************************************)
NextOuterAssigned(cur, optRet) == optRet

NextOuter(cur, optRet) == cur

FailReturnOuter(cur, optRet) == cur

FailReturn(cur, optRet) == optRet

RECURSIVE RedefineLoop(_, _, _, _)
RedefineLoop(lay, cur, opts, i) ==
    IF i = Len(opts) THEN [l |-> lay, ret |-> cur, err |-> FALSE, called |-> i]
    ELSE LET r == CallOpt(opts[i + 1], cur, lay)
         IN  IF r.err
             THEN [l |-> r.l, ret |-> FailReturn(cur, r.ret), err |-> TRUE, called |-> i + 1]
             ELSE RedefineLoop(r.l, NextOuter(cur, r.ret), opts, i + 1)

Redefine(lay, opts) == RedefineLoop(lay, "orig", opts, 0)

(***************************************************************************)
(* What the last call did: its name and outcome, what the layer was when   *)
(* it began (identity, weight, initialized flag, cached FLOPs) and the     *)
(* allocation count (preAlloc) it started from, its input x, and for the   *)
(* calls that take options the number of options called, the value         *)
(* returned and, computed from the option list alone, the position and     *)
(* returned value of the first failing option, whether an earlier option   *)
(* returned another layer value, and the layer as the options before the   *)
(* first failing one leave it (expect).                                    *)
(***************************************************************************)
NoLast ==
    [op |-> "none", res |-> "ok", err |-> "", errShape |-> <<>>, ret |-> "none",
     called |-> 0, nopts |-> 0, failIdx |-> 0, failRet |-> "none", otherRet |-> FALSE,
     expect |-> DefaultConv(0), stages |-> <<>>, failed |-> "", fault |-> "none",
     preId |-> 0, preW |-> NilNode, preInit |-> FALSE, preFlops |-> 0,
     preAlloc |-> 0, x |-> NilInput]

NoFl ==
    [done |-> FALSE, shp |-> <<>>, input |-> <<>>, pad |-> <<>>, stride |-> <<>>,
     act |-> FALSE, rows |-> 0, cols |-> 0, ret |-> 0]

Began(name) ==
    [NoLast EXCEPT !.op = name, !.preId = l.id, !.preW = l.w,
                   !.preInit = l.initialized, !.preFlops = l.flops,
                   !.preAlloc = nalloc]

FirstFail(opts) ==
    IF \E i \in 1..Len(opts) : opts[i].err
    THEN CHOOSE i \in 1..Len(opts) : opts[i].err /\ \A j \in 1..(i - 1) : ~opts[j].err
    ELSE 0

RECURSIVE ApplyPrefix(_, _, _)
ApplyPrefix(lay, opts, n) ==
    IF n = 0 THEN lay ELSE ApplySetter(opts[n], ApplyPrefix(lay, opts, n - 1))

Init ==
    /\ l = DefaultConv(1)
    /\ nalloc = 0
    /\ last = NoLast
    /\ fl = NoFl

NewConvCall ==
    \E opts \in OptLists :
        LET r == NewConv(l.id + 1, opts)
        IN  /\ l.id < MaxLayers
            /\ l' = IF r.ok THEN r.l ELSE l
            /\ last' = [Began("NewConv") EXCEPT
                            !.res = IF r.ok THEN "ok" ELSE "err", !.err = r.err,
                            !.ret = IF r.ok THEN "new" ELSE "nil",
                            !.called = r.called, !.nopts = Len(opts)]
            /\ UNCHANGED <<nalloc, fl>>

ConsConvCall ==
    \E in \in ConsInputs, opts \in OptLists :
        LET r == ConsConv(l.id + 1, in, opts, nalloc)
        IN  /\ l.id < MaxLayers
            /\ nalloc < MaxAlloc
            /\ l' = IF r.res = "ok" THEN r.l ELSE l
            /\ nalloc' = r.na
            /\ last' = [Began("ConsConv") EXCEPT
                            !.res = r.res, !.err = r.err, !.errShape = r.errShape,
                            !.ret = IF r.res = "ok" THEN "new" ELSE "nil",
                            !.called = r.called, !.nopts = Len(opts), !.x = in]
            /\ UNCHANGED fl

InitCall ==
    \E x \in InitInputs :
        /\ nalloc < MaxAlloc
        /\ IF InitPanics(l)
           THEN /\ last' = [Began("Init") EXCEPT !.res = "panic", !.x = x]
                /\ UNCHANGED <<l, nalloc>>
           ELSE /\ l' = ConvInit(l, x, nalloc)
                /\ nalloc' = nalloc + 1
                /\ last' = [Began("Init") EXCEPT !.x = x]
        /\ UNCHANGED fl

FwdCall ==
    \E x \in FwdInputs, fault \in Faults :
        LET c == FwdRun(l, x, nalloc, fault)
        IN  /\ l.initialized \/ nalloc < MaxAlloc
            /\ l' = c.l
            /\ nalloc' = c.na
            /\ last' = [Began("Fwd") EXCEPT
                            !.res = c.res, !.stages = c.stages, !.failed = c.failed,
                            !.fault = fault, !.x = x]
            /\ UNCHANGED fl

SetDropoutCall ==
    \E d \in DropoutProbs :
        /\ l' = SetDropout(l, d)
        /\ last' = Began("SetDropout")
        /\ UNCHANGED <<nalloc, fl>>

SetSizeCall ==
    \E s \in Sizes :
        /\ l' = SetSize(l, s)
        /\ last' = Began("SetSize")
        /\ UNCHANGED <<nalloc, fl>>

SetNameCall ==
    \E n \in Names :
        /\ l' = SetName(l, n)
        /\ last' = Began("SetName")
        /\ UNCHANGED <<nalloc, fl>>

SetActivationFnCall ==
    \E a \in Acts :
        /\ l' = SetActivationFn(l, a)
        /\ last' = Began("SetActivationFn")
        /\ UNCHANGED <<nalloc, fl>>

(* FLOPs computation is switched on for the layer.                         *)
EnableFLOPs ==
    /\ ~l.computeFLOPs
    /\ l' = [l EXCEPT !.computeFLOPs = TRUE]
    /\ last' = Began("EnableFLOPs")
    /\ UNCHANGED <<nalloc, fl>>

RedefineCall ==
    \E opts \in OptLists :
        LET r == Redefine(l, opts)
            f == FirstFail(opts)
        IN  /\ l' = r.l
            /\ last' = [Began("Redefine") EXCEPT
                            !.res = IF r.err THEN "err" ELSE "ok",
                            !.ret = r.ret, !.called = r.called, !.nopts = Len(opts),
                            !.failIdx = f,
                            !.failRet = IF f = 0 THEN "none" ELSE
                                        IF opts[f].ret = "arg" THEN "orig" ELSE opts[f].ret,
                            !.otherRet = \E i \in 1..Len(opts) :
                                            /\ opts[i].ret # "arg"
                                            /\ (f = 0 \/ i < f),
                            !.expect = ApplyPrefix(l, opts, IF f = 0 THEN Len(opts) ELSE f - 1)]
            /\ UNCHANGED <<nalloc, fl>>

Next ==
    \/ NewConvCall
    \/ ConsConvCall
    \/ InitCall
    \/ FwdCall
    \/ SetDropoutCall
    \/ SetSizeCall
    \/ SetNameCall
    \/ SetActivationFnCall
    \/ EnableFLOPs
    \/ RedefineCall

Spec == Init /\ [][Next]_vars

(***************************************************************************)
(* The same program, one group of operations at a time.  Every behaviour   *)
(* of these specifications is a behaviour of Spec.                         *)
(***************************************************************************)
(* Forward passes of one layer between reconfigurations.                   *)
NextFwd ==
    \/ FwdCall
    \/ SetDropoutCall
    \/ SetSizeCall
    \/ SetActivationFnCall
    \/ EnableFLOPs

SpecFwd == Init /\ [][NextFwd]_vars

(* The life of one layer: every operation that can touch its weight.       *)
NextLife ==
    \/ InitCall
    \/ FwdCall
    \/ SetDropoutCall
    \/ SetSizeCall
    \/ SetNameCall
    \/ SetActivationFnCall
    \/ RedefineCall

SpecLife == Init /\ [][NextLife]_vars

(* Construction of a layer (its size set by an option, or left unset) and  *)
(* its first uses.                                                         *)
NextCons ==
    \/ NewConvCall
    \/ ConsConvCall
    \/ InitCall
    \/ FwdCall

SpecCons == Init /\ [][NextCons]_vars

(* Redefinition of a configured layer.                                     *)
NextRedefine ==
    \/ RedefineCall
    \/ SetSizeCall
    \/ SetNameCall
    \/ SetDropoutCall
    \/ SetActivationFnCall

SpecRedefine == Init /\ [][NextRedefine]_vars

(***************************************************************************)
(* doComputeFLOPs as a function of its inputs: the initial states draw a   *)
(* weight shape, an input shape, pad, stride and whether an activation     *)
(* function is set; the one action evaluates the function on them.         *)
(***************************************************************************)
Filters == {1, 6}
Channels == {3}
Kernels == {3, 5}
InChannels == {1, 3}
Heights == {2, 4, 32}
Widths == {8, 32}

FlInputs ==
    {[NoFl EXCEPT !.shp = <<f, c, kh, kw>>, !.input = <<1, ic, h, w>>,
                  !.pad = <<ph, pw>>, !.stride = <<sh, sw>>, !.act = a] :
        f \in Filters, c \in Channels, kh \in Kernels, kw \in Kernels,
        ic \in InChannels, h \in Heights, w \in Widths,
        ph \in 0..MaxPad, pw \in 0..MaxPad,
        sh \in 1..MaxStride, sw \in 1..MaxStride, a \in BOOLEAN}

InitFLOPs ==
    /\ l = DefaultConv(1)
    /\ nalloc = 0
    /\ last = NoLast
    /\ fl \in FlInputs

EvalFLOPs ==
    /\ ~fl.done
    /\ LET r == doComputeFLOPs(fl.shp, fl.input, fl.pad, fl.stride, fl.act)
       IN  fl' = [fl EXCEPT !.done = TRUE, !.rows = r.rows, !.cols = r.cols,
                            !.ret = r.retVal]
    /\ UNCHANGED <<l, nalloc, last>>

NextFLOPs == EvalFLOPs

SpecFLOPs == InitFLOPs /\ [][NextFLOPs]_vars

(***************************************************************************)
(* Properties of Fwd.                                                      *)
(***************************************************************************)
Valid4D(x) == ~x.err /\ ~x.isNil /\ Len(x.shape) = RequiredRank

(* The configuration NewConv gives a layer when it is passed no option.    *)
DefaultConfiguration(lay) ==
    LET d == DefaultConv(lay.id)
    IN  /\ lay.name = d.name /\ lay.size = d.size
        /\ lay.kernelShape = d.kernelShape /\ lay.pad = d.pad
        /\ lay.stride = d.stride /\ lay.dilation = d.dilation
        /\ lay.dropout = d.dropout /\ lay.act = d.act

FirstFwdInitializes ==
    /\ l.initialized
    /\ l.w.id = last.preAlloc + 1
    /\ nalloc = last.preAlloc + 1
    /\ l.w.g = last.x.g
    /\ l.w.dt = last.x.dt

LaterFwdReuses == l.w = last.preW /\ l.initialized /\ nalloc = last.preAlloc

\* C1: for every valid 4-D input and a layer in its default configuration, the
\* first Fwd on the uninitialized layer makes it initialized, allocating the
\* weight once from that input's graph and dtype, and every later Fwd reuses
\* that same weight node without allocating.
C1_FwdInitializesDefaultLayerOnce ==
    (last.op = "Fwd" /\ Valid4D(last.x)) =>
        /\ (~last.preInit /\ DefaultConfiguration(l)) => FirstFwdInitializes
        /\ last.preInit => LaterFwdReuses

(* What does hold: the same for a layer whose size has two entries.        *)
FwdInitializesSizedLayerOnce ==
    (last.op = "Fwd" /\ Valid4D(last.x)) =>
        /\ (~last.preInit /\ Len(l.size) >= 2) => FirstFwdInitializes
        /\ last.preInit => LaterFwdReuses

\* C5: Fwd never panics, whatever the configuration of the layer (no size set,
\* activation function nil) and whatever the input.
C5_FwdNeverPanics == last.op = "Fwd" => last.res # "panic"

StageOrder == <<"check", "init", "conv2d", "act", "dropout", "flops">>

Pos(stage) == CHOOSE i \in 1..Len(StageOrder) : StageOrder[i] = stage

Ran(stage) == \E i \in 1..Len(last.stages) : last.stages[i] = stage

InOrder(stages) ==
    \A i, j \in 1..Len(stages) : i < j => Pos(stages[i]) < Pos(stages[j])

KeepsWeight == {"Fwd", "SetSize", "SetName", "SetDropout", "SetActivationFn", "Redefine"}

\* C10: once a layer is initialized it stays initialized; Fwd, the setters and
\* Redefine leave the weight node unchanged (so a size set after
\* initialization is not reflected in the weight's shape), while each explicit
\* Init call on an initialized layer allocates a new weight node.
C10_OnlyInitReplacesWeight ==
    (last.op # "none" /\ last.preInit /\ l.id = last.preId) =>
        /\ l.initialized
        /\ last.op \in KeepsWeight => l.w = last.preW
        /\ last.op = "Init" =>
              /\ l.w.id # last.preW.id
              /\ l.w.id = last.preAlloc + 1

(* What does hold: the same, for the Init calls that return.               *)
OnlyReturningInitReplacesWeight ==
    (last.op # "none" /\ last.preInit /\ l.id = last.preId) =>
        /\ l.initialized
        /\ last.op \in KeepsWeight => l.w = last.preW
        /\ (last.op = "Init" /\ last.res = "ok") =>
              /\ l.w.id # last.preW.id
              /\ l.w.id = last.preAlloc + 1
        /\ (last.op = "Init" /\ last.res = "panic") =>
              Len(l.size) < 2 /\ l.w = last.preW

(***************************************************************************)
(* Properties of the constructors.                                         *)
(***************************************************************************)
Returned(name) == last.op = name /\ last.res = "ok" /\ l.id = last.preId + 1

\* C2: a layer returned by NewConv or by ConsConv is uninitialized and holds
\* no weight; the weight is bound to a graph only by the first Fwd call.
C2_ConstructedLayerUninitialized ==
    /\ (Returned("NewConv") \/ Returned("ConsConv")) =>
          ~l.initialized /\ l.w = NilNode
    /\ (l.id = last.preId /\ last.preW = NilNode /\ l.w # NilNode) => last.op = "Fwd"

\* C2 as amended: a layer returned by NewConv is uninitialized and holds no
\* weight, and its weight is bound, to the graph of the input, by its first
\* Fwd call or by an explicit Init call; a layer returned by ConsConv is
\* already initialized, its weight freshly allocated on the graph and with
\* the dtype of ConsConv's input.
C2_OnlyNewConvLayerUninitialized ==
    /\ Returned("NewConv") => ~l.initialized /\ l.w = NilNode /\ nalloc = last.preAlloc
    /\ Returned("ConsConv") =>
          /\ l.initialized
          /\ l.w.id = last.preAlloc + 1
          /\ l.w.g = last.x.g /\ l.w.dt = last.x.dt
    /\ (l.id = last.preId /\ last.preW = NilNode /\ l.w # NilNode) =>
          /\ last.op \in {"Fwd", "Init"}
          /\ l.initialized
          /\ l.w.g = last.x.g /\ l.w.dt = last.x.dt
    /\ (last.op \in {"NewConv", "ConsConv"} /\ last.res # "ok") =>
          l.id = last.preId /\ l.w = last.preW

C2_Witness ==
    /\ Returned("ConsConv") /\ l.initialized /\ l.w.g = "g2" /\ last.called > 0

\* C6: ConsConv fails whenever the input's node is nil or the input's shape
\* is not of rank 4: it returns no layer and an error (the rank error carrying
\* the actual shape), before any option is applied or any weight allocated.
C6_ConsConvRejectsBadInput ==
    (last.op = "ConsConv" /\ (last.x.isNil \/ Len(last.x.shape) # RequiredRank)) =>
        /\ last.res = "err" /\ last.ret = "nil"
        /\ l.id = last.preId
        /\ last.called = 0
        /\ nalloc = last.preAlloc
        /\ l.w = last.preW
        /\ last.x.isNil => last.err = "nilNode"
        /\ ~last.x.isNil => last.err = "rank" /\ last.errShape = last.x.shape

C6_Witness ==
    /\ last.op = "ConsConv" /\ ~last.x.isNil /\ Len(last.x.shape) > RequiredRank
    /\ last.nopts > 0 /\ last.res = "err"

(***************************************************************************)
(* Properties of Redefine.                                                 *)
(***************************************************************************)
\* C3: Redefine stops at the first option that fails: no later option is
\* called, and it returns that option's error together with the layer, as
\* modified by the options that succeeded.
C3_RedefineReturnsLayerOnFailure ==
    (last.op = "Redefine" /\ last.failIdx > 0) =>
        /\ last.called = last.failIdx
        /\ last.res = "err"
        /\ last.ret = "orig"
        /\ l = last.expect

\* C3 as amended: Redefine stops at the first option that fails: no later
\* option is called, and it returns that option's error together with the
\* layer value the failing option itself returned (nil for an option that
\* returns no layer); the layer object has been modified in place by the
\* options that succeeded.
C3_RedefineReturnsFailingOptionsValue ==
    (last.op = "Redefine" /\ last.failIdx > 0) =>
        /\ last.called = last.failIdx
        /\ last.res = "err"
        /\ last.ret = last.failRet
        /\ l = last.expect

C3_Witness ==
    /\ last.op = "Redefine" /\ last.failIdx > 1 /\ last.failIdx < last.nopts + 1
    /\ last.failRet = "nil" /\ last.ret = "nil"
    /\ l.size = OptSize

\* C7: when no option fails (in particular for an empty option list) Redefine
\* returns exactly the layer it was given and no error, whatever layer values
\* the options returned; with no option the layer is unchanged.
C7_RedefineReturnsGivenLayer ==
    (last.op = "Redefine" /\ last.failIdx = 0) =>
        /\ last.res = "ok"
        /\ last.ret = "orig"
        /\ last.called = last.nopts
        /\ l.id = last.preId
        /\ l = last.expect

C7_Witness ==
    /\ last.op = "Redefine" /\ last.failIdx = 0 /\ last.otherRet
    /\ last.ret = "orig" /\ last.nopts > 1

(***************************************************************************)
(* Properties of the FLOPs estimate.                                       *)
(***************************************************************************)
\* C4: for weight shape (F,C,Kh,Kw) and input (batch, channel, height, width)
\* the estimate is F * (C*Kh*Kw + 1) * I, plus F * I when an activation
\* function is set, with I = ((height - Kh + 2*padH)/strideH + 1) *
\* ((width - Kw + 2*padW)/strideW + 1); weight (6,3,5,5), pad (1,1), stride
\* (1,1), input (batch,3,32,32) gives 415800 with activation, 410400 without.
C4_FLOPsClosedForm ==
    fl.done =>
        LET F == Idx(fl.shp, 0)
            C == Idx(fl.shp, 1)
            Kh == Idx(fl.shp, 2)
            Kw == Idx(fl.shp, 3)
            height == Idx(fl.input, 2)
            width == Idx(fl.input, 3)
            I == (((height - Kh + 2 * Idx(fl.pad, 0)) \div Idx(fl.stride, 0)) + 1)
                    * (((width - Kw + 2 * Idx(fl.pad, 1)) \div Idx(fl.stride, 1)) + 1)
        IN  /\ fl.ret = F * (C * Kh * Kw + 1) * I + (IF fl.act THEN F * I ELSE 0)
            /\ (fl.shp = <<6, 3, 5, 5>> /\ fl.pad = <<1, 1>> /\ fl.stride = <<1, 1>>
                    /\ fl.input = <<1, 3, 32, 32>>) =>
                  fl.ret = IF fl.act THEN 415800 ELSE 410400

RowsNum == RowsDim(fl.input) - Idx(fl.shp, 2) + 2 * Idx(fl.pad, 0)

ColsNum == ColsDim(fl.input) - Idx(fl.shp, 3) + 2 * Idx(fl.pad, 1)

\* C9: each per-dimension factor of instancesPerFilter equals
\* floor((inputDim - K + 2*pad)/stride) + 1 for all integers inputDim, K, pad
\* and stride >= 1, also where inputDim - K + 2*pad is negative and not a
\* multiple of stride.
C9_FactorIsFloor ==
    fl.done =>
        /\ fl.rows = (RowsNum \div Idx(fl.stride, 0)) + 1
        /\ fl.cols = (ColsNum \div Idx(fl.stride, 1)) + 1

(* q is num / stride rounded toward zero: the remainder is smaller in      *)
(* magnitude than stride and has the sign of num.                          *)
TruncQuotient(num, stride, q) ==
    LET r == num - stride * q
    IN  IF num >= 0 THEN 0 <= r /\ r < stride ELSE -stride < r /\ r <= 0

FactorIsTrunc(factor, num, stride) ==
    /\ TruncQuotient(num, stride, factor - 1)
    /\ (num >= 0 \/ num % stride = 0) => factor = (num \div stride) + 1
    /\ (num < 0 /\ num % stride # 0) => factor = (num \div stride) + 2

\* C9 as amended: each per-dimension factor equals the quotient of
\* (inputDim - K + 2*pad) by stride rounded toward zero, plus 1, for all
\* integers inputDim, K, pad and stride >= 1; it equals floor(...) + 1 where
\* inputDim - K + 2*pad is non-negative or a multiple of stride, and
\* floor(...) + 2 where it is negative and not a multiple of stride.
C9_FactorIsTruncated ==
    fl.done =>
        /\ FactorIsTrunc(fl.rows, RowsNum, Idx(fl.stride, 0))
        /\ FactorIsTrunc(fl.cols, ColsNum, Idx(fl.stride, 1))

C9_Witness ==
    /\ fl.done
    /\ ColsNum < 0 /\ ColsNum % Idx(fl.stride, 1) # 0
    /\ fl.cols = (ColsNum \div Idx(fl.stride, 1)) + 2

====
